---- MODULE Spec2Model ----
(***************************************************************************)
(* Model of main.py: the concentration simulator calculate_drug_levels,    *)
(* the extrema finder find_local_extrema and the Streamlit script main.    *)
(*                                                                         *)
(* Numbers.  The program computes in float64.  A concentration or a dose   *)
(* amount is held here as an integer count of the float64 quantum 2^-1074; *)
(* in that range float64 addition is exact and a product is rounded to the *)
(* nearest multiple of the quantum, ties to even, which is what Mul does.  *)
(* A half-life is a whole number of hours.  A schedule time is held in     *)
(* half hours (3 is 1.5 h), so that int() has something to truncate.       *)
(* Python index k of an array is index k+1 of the sequence that models it. *)
(***************************************************************************)
EXTENDS Integers, Sequences, FiniteSets, TLC

VARIABLES
    pc,                     \* where the caller is: "idle", "returned", "raised", "extrema", "error", "rerun", "rendered"
    initial_concentration,  \* arguments of the last call of calculate_drug_levels
    half_life_min,
    half_life_max,
    redose_schedule,
    duration,
    time_points,            \* its three results
    concentrations_min,
    concentrations_max,
    redose_dict,            \* its local redose_dict
    redosed,                \* history: the loop indices i at which the branch of line 22 was taken
    concentrations,         \* argument of the last call of find_local_extrema
    local_minima,           \* its two results
    local_maxima,
    half_life_range,        \* main: the text of the half-life widget
    session_state,          \* main: st.session_state.redose_schedule
    plot,                   \* main: the four extrema arrays that are scattered on the chart
    error                   \* main: the message given to st.error

vars == <<pc, initial_concentration, half_life_min, half_life_max, redose_schedule,
          duration, time_points, concentrations_min, concentrations_max, redose_dict,
          redosed, concentrations, local_minima, local_maxima, half_life_range,
          session_state, plot, error>>

----------------------------------------------------------------------------
(* Bounds of the inputs the model draws.                                   *)
MaxConc == 4
MaxHalfLife == 2
MaxAmount == 1
MaxSched == 2
MaxDuration == 49
MaxSeries == 5
MaxValue == 4
MaxText == 3

HoursPerDay == 24

None == "None"

InitialConcentrations == -1..MaxConc
HalfLives == 0..MaxHalfLife
Amounts == -1..MaxAmount
\* schedule times in half hours: -1 h, -0.5 h, 0 h, 1 h, 24 h
Times == {-2, -1, 0, 2, 2 * HoursPerDay}
Entries == Times \X Amounts
Durations == (-1..2) \cup {MaxDuration}

Range(s) == {s[j] : j \in 1..Len(s)}

RECURSIVE SeqsUpTo(_, _)
SeqsUpTo(S, n) ==
    IF n = 0 THEN {<<>>}
    ELSE LET shorter == SeqsUpTo(S, n - 1)
         IN  shorter \cup {Append(s, x) : s \in {t \in shorter : Len(t) = n - 1}, x \in S}

Schedules == SeqsUpTo(Entries, MaxSched)

\* The calls a caller makes: every initial concentration and pair of half-lives with
\* a schedule of at most one entry, and every schedule with a few of them.
Calls ==
    (InitialConcentrations \X HalfLives \X HalfLives \X SeqsUpTo(Entries, 1) \X Durations)
    \cup ({MaxConc} \X {1} \X {MaxHalfLife} \X Schedules \X Durations)

----------------------------------------------------------------------------
(* float64 arithmetic on counts of the quantum                             *)

RECURSIVE Power(_, _)
Power(b, n) == IF n = 0 THEN 1 ELSE b * Power(b, n - 1)

\* 0.5 ** (dt / half_life): the real number 2^-(dt/half_life), kept as its exponent.
\* numpy divides by 0.0 to inf (a warning, no exception), and 0.5 ** inf is 0.0.
DecayFactor(dt, half_life) == [num |-> dt, den |-> half_life]

\* m <= a * 2^-(n/d) + 1/2  iff  2^n * (2m-1)^d <= (2a)^d, for m >= 1
HalfBelow(m, a, f) == Power(2, f.num) * Power(2 * m - 1, f.den) - Power(2 * a, f.den)

\* a * 2^-(num/den) rounded to the nearest integer, a half rounded up
RoundHalfUp(a, f) == Cardinality({m \in 1..a : HalfBelow(m, a, f) <= 0})

\* round-to-nearest, ties to even: a half is rounded to the even neighbour
TiesToEven(up, a, f) ==
    IF up > 0 /\ up % 2 = 1 /\ HalfBelow(up, a, f) = 0 THEN up - 1 ELSE up

\* c * 2^-(num/den) in float64: the nearest multiple of the quantum, ties to even;
\* the sign is kept aside, and 2^-inf (den = 0) is 0.0.  (A function, so that its
\* arguments are evaluated once.)
Product[c \in Int, num \in Int, den \in Int] ==
    LET f == [num |-> num, den |-> den]
    IN  IF den = 0 \/ c = 0 THEN 0
        ELSE IF c < 0 THEN -TiesToEven(RoundHalfUp(-c, f), -c, f)
        ELSE TiesToEven(RoundHalfUp(c, f), c, f)

\* c * f
Mul(c, f) == Product[c, f.num, f.den]

----------------------------------------------------------------------------
(* calculate_drug_levels                                                   *)

\* Arange with the stop value one too small (duration instead of duration + 1)
ArangeShort(start, stop) ==
    [j \in 1..(IF stop - 1 > start THEN stop - 1 - start ELSE 0) |-> start + j - 1]

\* np.arange(start, stop)
Arange(start, stop) ==
    [j \in 1..(IF stop > start THEN stop - start ELSE 0) |-> start + j - 1]

\* np.zeros_like(a, dtype=float)
ZerosLike(a) == [j \in 1..Len(a) |-> 0]

\* int(time): truncation toward zero of a time held in half hours
IntOf(time) == IF time >= 0 THEN time \div 2 ELSE -((-time) \div 2)

EmptyDict == [k \in {} |-> 0]

\* RedoseDict keeping the first entry of an hour instead of the last
RECURSIVE RedoseDictFirst(_)
RedoseDictFirst(schedule) ==
    IF schedule = <<>> THEN EmptyDict
    ELSE LET n == Len(schedule)
             d == RedoseDictFirst(SubSeq(schedule, 1, n - 1))
             key == IntOf(schedule[n][1])
         IN  [k \in DOMAIN d \cup {key} |-> IF k \in DOMAIN d THEN d[k] ELSE schedule[n][2]]

\* RedoseDict with the hour folded into 0..23 (int(time) % 24)
RECURSIVE RedoseDictMod(_)
RedoseDictMod(schedule) ==
    IF schedule = <<>> THEN EmptyDict
    ELSE LET n == Len(schedule)
             d == RedoseDictMod(SubSeq(schedule, 1, n - 1))
             key == IntOf(schedule[n][1]) % HoursPerDay
         IN  [k \in DOMAIN d \cup {key} |-> IF k = key THEN schedule[n][2] ELSE d[k]]

\* {int(time): amount for time, amount in redose_schedule}: a later entry overwrites
RECURSIVE RedoseDict(_)
RedoseDict(schedule) ==
    IF schedule = <<>> THEN EmptyDict
    ELSE LET n == Len(schedule)
             d == RedoseDict(SubSeq(schedule, 1, n - 1))
             key == IntOf(schedule[n][1])
         IN  [k \in DOMAIN d \cup {key} |-> IF k = key THEN schedule[n][2] ELSE d[k]]

\* LoopBody with the schedule looked up by elapsed time instead of hour of day
LoopBodyElapsed(st, i, hmin, hmax, dict) ==
    LET t == st.time_points
        cmin == Mul(st.concentrations_min[i], DecayFactor(t[i + 1] - t[i], hmin))
        cmax == Mul(st.concentrations_max[i], DecayFactor(t[i + 1] - t[i], hmax))
        hit == t[i + 1] \in DOMAIN dict
        add == IF hit THEN dict[t[i + 1]] ELSE 0
    IN  [st EXCEPT !.concentrations_min[i + 1] = cmin + add,
                   !.concentrations_max[i + 1] = cmax + add,
                   !.redosed = IF hit THEN @ \cup {i} ELSE @]

\* LoopBody with the dose assigned (=) instead of added (+=)
LoopBodyAssign(st, i, hmin, hmax, dict) ==
    LET t == st.time_points
        cmin == Mul(st.concentrations_min[i], DecayFactor(t[i + 1] - t[i], hmin))
        cmax == Mul(st.concentrations_max[i], DecayFactor(t[i + 1] - t[i], hmax))
        hit == (t[i + 1] % HoursPerDay) \in DOMAIN dict
        add == IF hit THEN dict[t[i + 1] % HoursPerDay] ELSE 0
    IN  [st EXCEPT !.concentrations_min[i + 1] = IF hit THEN add ELSE cmin,
                   !.concentrations_max[i + 1] = IF hit THEN add ELSE cmax,
                   !.redosed = IF hit THEN @ \cup {i} ELSE @]

\* LoopBody decaying from index i - 2 instead of i - 1 (index -1 is the last element)
LoopBodyOffByOne(st, i, hmin, hmax, dict) ==
    LET t == st.time_points
        prev == IF i >= 2 THEN i - 1 ELSE Len(t)
        cmin == Mul(st.concentrations_min[prev], DecayFactor(t[i + 1] - t[i], hmin))
        cmax == Mul(st.concentrations_max[prev], DecayFactor(t[i + 1] - t[i], hmax))
        hit == (t[i + 1] % HoursPerDay) \in DOMAIN dict
        add == IF hit THEN dict[t[i + 1] % HoursPerDay] ELSE 0
    IN  [st EXCEPT !.concentrations_min[i + 1] = cmin + add,
                   !.concentrations_max[i + 1] = cmax + add,
                   !.redosed = IF hit THEN @ \cup {i} ELSE @]

\* LoopBody with the two half-lives swapped
LoopBodySwapped(st, i, hmin, hmax, dict) ==
    LET t == st.time_points
        cmin == Mul(st.concentrations_min[i], DecayFactor(t[i + 1] - t[i], hmax))
        cmax == Mul(st.concentrations_max[i], DecayFactor(t[i + 1] - t[i], hmin))
        hit == (t[i + 1] % HoursPerDay) \in DOMAIN dict
        add == IF hit THEN dict[t[i + 1] % HoursPerDay] ELSE 0
    IN  [st EXCEPT !.concentrations_min[i + 1] = cmin + add,
                   !.concentrations_max[i + 1] = cmax + add,
                   !.redosed = IF hit THEN @ \cup {i} ELSE @]

\* one iteration of the loop of lines 15-24, for Python index i
LoopBody(st, i, hmin, hmax, dict) ==
    LET t == st.time_points
        decay_factor_min == DecayFactor(t[i + 1] - t[i], hmin)
        decay_factor_max == DecayFactor(t[i + 1] - t[i], hmax)
        cmin == Mul(st.concentrations_min[i], decay_factor_min)
        cmax == Mul(st.concentrations_max[i], decay_factor_max)
        hit == (t[i + 1] % HoursPerDay) \in DOMAIN dict
        add == IF hit THEN dict[t[i + 1] % HoursPerDay] ELSE 0
    IN  [st EXCEPT !.concentrations_min[i + 1] = cmin + add,
                   !.concentrations_max[i + 1] = cmax + add,
                   !.redosed = IF hit THEN @ \cup {i} ELSE @]

\* for i in range(from, len(time_points))
RECURSIVE Loop(_, _, _, _, _)
Loop(st, from, hmin, hmax, dict) ==
    IF from >= Len(st.time_points) THEN st
    ELSE Loop(LoopBody(st, from, hmin, hmax, dict), from + 1, hmin, hmax, dict)

\* The whole function.  Writing index 0 of an empty array raises IndexError.
CalculateDrugLevels(ic, hmin, hmax, schedule, dur) ==
    LET tp == Arange(0, dur + 1)
        zmin == ZerosLike(tp)
        zmax == ZerosLike(tp)
    IN  IF Len(tp) = 0
        THEN [raised |-> TRUE, time_points |-> tp, concentrations_min |-> zmin,
              concentrations_max |-> zmax, redose_dict |-> EmptyDict, redosed |-> {}]
        ELSE LET st0 == [raised |-> FALSE, time_points |-> tp,
                         concentrations_min |-> [zmin EXCEPT ![1] = ic],
                         concentrations_max |-> [zmax EXCEPT ![1] = ic],
                         redose_dict |-> RedoseDict(schedule), redosed |-> {}]
             IN  Loop(st0, 1, hmin, hmax, st0.redose_dict)

----------------------------------------------------------------------------
(* find_local_extrema                                                      *)

\* the comparators np.less and np.greater, and comparator(a, b)
Less == "less"
Greater == "greater"
Comparator(cmp, a, b) == IF cmp = Less THEN a < b ELSE a > b

\* Clip as mode='wrap' would do it: the index wraps around the ends
ClipWrap(k, n) == k % n

\* index clipped into 0..n-1 (take(..., mode='clip'))
Clip(k, n) == IF k < 0 THEN 0 ELSE IF k > n - 1 THEN n - 1 ELSE k

\* scipy.signal.argrelextrema(data, comparator)[0], order 1, mode 'clip':
\* the ascending indices k with comparator(data[k], data[k+1]) and
\* comparator(data[k], data[k-1]), the neighbours' indices clipped
RECURSIVE Argrelextrema(_, _, _)
Argrelextrema(data, cmp, k) ==
    LET n == Len(data)
    IN  IF k >= n THEN <<>>
        ELSE LET keep == /\ Comparator(cmp, data[k + 1], data[Clip(k + 1, n) + 1])
                         /\ Comparator(cmp, data[k + 1], data[Clip(k - 1, n) + 1])
             IN  (IF keep THEN <<k>> ELSE <<>>) \o Argrelextrema(data, cmp, k + 1)

FindLocalExtrema(data) ==
    [local_minima |-> Argrelextrema(data, Less, 0),
     local_maxima |-> Argrelextrema(data, Greater, 0)]

----------------------------------------------------------------------------
\* nothing drawn on the chart
NoPlot == [min |-> FindLocalExtrema(<<>>), max |-> FindLocalExtrema(<<>>)]

\* Before the first call and between calls the locals hold 0, <<>> or None.
Init ==
    /\ pc = "idle"
    /\ initial_concentration = 0
    /\ half_life_min = 0
    /\ half_life_max = 0
    /\ redose_schedule = <<>>
    /\ duration = 0
    /\ time_points = <<>>
    /\ concentrations_min = <<>>
    /\ concentrations_max = <<>>
    /\ redose_dict = EmptyDict
    /\ redosed = {}
    /\ concentrations = <<>>
    /\ local_minima = <<>>
    /\ local_maxima = <<>>
    /\ half_life_range = <<>>
    /\ session_state = <<>>
    /\ plot = NoPlot
    /\ error = None

\* what a call of calculate_drug_levels leaves in the state
CallEffect(ic, hmin, hmax, schedule, dur, r) ==
    /\ initial_concentration' = ic
    /\ half_life_min' = hmin
    /\ half_life_max' = hmax
    /\ redose_schedule' = schedule
    /\ duration' = dur
    /\ time_points' = r.time_points
    /\ concentrations_min' = r.concentrations_min
    /\ concentrations_max' = r.concentrations_max
    /\ redose_dict' = r.redose_dict
    /\ redosed' = r.redosed

\* a caller (a test, another front end) calls calculate_drug_levels
Calculate ==
    /\ pc = "idle"
    /\ \E call \in Calls :
          LET r == CalculateDrugLevels(call[1], call[2], call[3], call[4], call[5])
          IN  /\ CallEffect(call[1], call[2], call[3], call[4], call[5], r)
              /\ pc' = IF r.raised THEN "raised" ELSE "returned"
    /\ UNCHANGED <<concentrations, local_minima, local_maxima, half_life_range,
                   session_state, plot, error>>

\* a caller calls find_local_extrema
FindExtrema ==
    /\ pc = "idle"
    /\ \E data \in SeqsUpTo(0..MaxValue, MaxSeries) :
          LET r == FindLocalExtrema(data)
          IN  /\ concentrations' = data
              /\ local_minima' = r.local_minima
              /\ local_maxima' = r.local_maxima
    /\ pc' = "extrema"
    /\ UNCHANGED <<initial_concentration, half_life_min, half_life_max, redose_schedule,
                   duration, time_points, concentrations_min, concentrations_max,
                   redose_dict, redosed, half_life_range, session_state, plot, error>>

\* the call is over: its locals are gone, the session state stays
Done ==
    /\ pc # "idle"
    /\ pc' = "idle"
    /\ initial_concentration' = 0
    /\ half_life_min' = 0
    /\ half_life_max' = 0
    /\ redose_schedule' = <<>>
    /\ duration' = 0
    /\ time_points' = <<>>
    /\ concentrations_min' = <<>>
    /\ concentrations_max' = <<>>
    /\ redose_dict' = EmptyDict
    /\ redosed' = {}
    /\ concentrations' = <<>>
    /\ local_minima' = <<>>
    /\ local_maxima' = <<>>
    /\ half_life_range' = <<>>
    /\ plot' = NoPlot
    /\ error' = None
    /\ UNCHANGED session_state

Next == Calculate \/ FindExtrema \/ Done

Spec == Init /\ [][Next]_vars

----------------------------------------------------------------------------
(* main: one run of the Streamlit script                                   *)

DigitChars == <<"0", "1", "2", "3", "4", "5", "6", "7", "8", "9">>

\* the texts typed into the half-life widget: digits, the separator, a letter
Alphabet == {DigitChars[d + 1] : d \in HalfLives} \cup {"-", "x"}
Texts == SeqsUpTo(Alphabet, MaxText)

\* what the other widgets can hold: number_input of the duration has min_value=1,
\* that of the initial concentration min_value=0.0, those of a row's hour and
\* amount have no minimum; a row's hour is a whole number
UiConcentrations == {0, MaxConc}
UiDurations == {1, 2, HoursPerDay + 1}
UiHours == {-1, 0, 1, HoursPerDay}
UiAmounts == Amounts

\* text.split(sep)
RECURSIVE Split(_, _)
Split(text, sep) ==
    IF \A k \in 1..Len(text) : text[k] # sep THEN <<text>>
    ELSE LET k == CHOOSE k \in 1..Len(text) :
                      text[k] = sep /\ \A l \in 1..(k - 1) : text[l] # sep
         IN  <<SubSeq(text, 1, k - 1)>> \o Split(SubSeq(text, k + 1, Len(text)), sep)

\* float(part) raises ValueError
FloatFails(part) ==
    part = <<>> \/ \E k \in 1..Len(part) : part[k] \notin Range(DigitChars)

\* float(part), for a part of digits
RECURSIVE Float(_)
Float(part) ==
    IF part = <<>> THEN 0
    ELSE LET n == Len(part)
             digit == CHOOSE d \in 0..9 : DigitChars[d + 1] = part[n]
         IN  10 * Float(SubSeq(part, 1, n - 1)) + digit

FormatError == "Invalid half-life range format. Please use the format 'min-max'."
OrderError == "Minimum half-life must be less than maximum half-life."

\* lines 45-52: half_life_min, half_life_max = map(float, text.split('-')), which
\* raises ValueError unless there are exactly two parts and both are floats, and
\* the check of their order
ParseHalfLife(text) ==
    LET parts == Split(text, "-")
    IN  IF Len(parts) # 2 \/ FloatFails(parts[1]) \/ FloatFails(parts[2])
        THEN [error |-> FormatError, half_life_min |-> 0, half_life_max |-> 0]
        ELSE IF Float(parts[1]) >= Float(parts[2])
        THEN [error |-> OrderError, half_life_min |-> Float(parts[1]),
              half_life_max |-> Float(parts[2])]
        ELSE [error |-> None, half_life_min |-> Float(parts[1]),
              half_life_max |-> Float(parts[2])]

\* s without its j-th entry (del s[j])
Remove(s, j) == SubSeq(s, 1, j - 1) \o SubSeq(s, j + 1, Len(s))

\* the texts that pass lines 45-52
Accepted == {text \in Texts : ParseHalfLife(text).error = None}

\* lines 39-52 of a run: the half-life text is parsed; p is what the parse gave
Parsed(text, p) ==
    /\ p = ParseHalfLife(text)
    /\ half_life_range' = text
    /\ error' = p.error
    /\ UNCHANGED <<concentrations, local_minima, local_maxima>>

NoCall ==
    UNCHANGED <<initial_concentration, half_life_min, half_life_max, redose_schedule,
                duration, time_points, concentrations_min, concentrations_max,
                redose_dict, redosed, plot>>

\* a run that ends at line 49 or 52: st.error and return
MainError ==
    /\ pc = "idle"
    /\ \E text \in Texts \ Accepted :
        /\ Parsed(text, ParseHalfLife(text))
        /\ pc' = "error"
        /\ NoCall
        /\ UNCHANGED session_state

\* a run after a click on the Delete of row j: lines 67-69, del and rerun
MainDelete ==
    /\ pc = "idle"
    /\ \E text \in Accepted, j \in 1..Len(session_state) :
        /\ Parsed(text, ParseHalfLife(text))
        /\ session_state' = Remove(session_state, j)
        /\ pc' = "rerun"
        /\ NoCall

\* a run after a click on Add Redose: lines 71-73, append [0, 0] and rerun
MainAdd ==
    /\ pc = "idle"
    /\ Len(session_state) < MaxSched
    /\ \E text \in Accepted :
        /\ Parsed(text, ParseHalfLife(text))
        /\ session_state' = Append(session_state, <<0, 0>>)
        /\ pc' = "rerun"
        /\ NoCall

\* the schedule after lines 57-66 wrote every row back from its two widgets, of
\* which the user changed at most one since the last run
Edits(schedule) ==
    {schedule}
    \cup {[schedule EXCEPT ![j][1] = 2 * h] : j \in 1..Len(schedule), h \in UiHours}
    \cup {[schedule EXCEPT ![j][2] = a] : j \in 1..Len(schedule), a \in UiAmounts}

\* a run with no button clicked: lines 54-66 and 76-98
MainRender ==
    /\ pc = "idle"
    /\ \E text \in Accepted, ic \in UiConcentrations, dur \in UiDurations,
          schedule \in Edits(session_state) :
        LET p == ParseHalfLife(text)
            r == CalculateDrugLevels(ic, p.half_life_min, p.half_life_max, schedule, dur)
        IN  /\ Parsed(text, p)
            /\ session_state' = schedule
            /\ CallEffect(ic, p.half_life_min, p.half_life_max, schedule, dur, r)
            /\ pc' = IF r.raised THEN "raised" ELSE "rendered"
            /\ plot' = IF r.raised THEN NoPlot
                       ELSE [min |-> FindLocalExtrema(r.concentrations_min),
                             max |-> FindLocalExtrema(r.concentrations_max)]

NextMain == MainError \/ MainDelete \/ MainAdd \/ MainRender \/ Done

SpecMain == Init /\ [][NextMain]_vars

----------------------------------------------------------------------------
(* Properties                                                              *)

\* the valid inputs of calculate_drug_levels: a positive duration, positive half-lives
ValidInput == duration >= 1 /\ half_life_min > 0 /\ half_life_max > 0

\* C1: for every valid input calculate_drug_levels returns, the three sequences
\* have length duration + 1, and timePoints[k] = k for every k in 0..duration.
C1_LengthAndTimeAxis ==
    (pc \in {"returned", "raised"} /\ ValidInput) =>
        /\ pc = "returned"
        /\ Len(time_points) = duration + 1
        /\ Len(concentrations_min) = duration + 1
        /\ Len(concentrations_max) = duration + 1
        /\ \A k \in 0..duration : time_points[k + 1] = k

C1_Witness ==
    /\ pc = "returned" /\ ValidInput
    /\ duration = MaxDuration /\ Len(redose_schedule) = MaxSched
    /\ time_points[MaxDuration + 1] = MaxDuration

\* C2: find_local_extrema returns as minima exactly the interior indices that are
\* strictly below both neighbours and as maxima exactly those strictly above both;
\* it never returns index 0, index length-1, or an index equal to a neighbour.
C2_StrictInteriorExtrema ==
    pc = "extrema" =>
        LET n == Len(concentrations)
            at(k) == concentrations[k + 1]
            interior == 1..(n - 2)
        IN  /\ Range(local_minima) = {k \in interior : at(k) < at(k - 1) /\ at(k) < at(k + 1)}
            /\ Range(local_maxima) = {k \in interior : at(k) > at(k - 1) /\ at(k) > at(k + 1)}
            /\ \A k \in Range(local_minima) \cup Range(local_maxima) :
                   /\ k # 0 /\ k # n - 1
                   /\ at(k) # at(k - 1) /\ at(k) # at(k + 1)

C2_Witness ==
    /\ pc = "extrema"
    /\ concentrations = <<1, 3, 2, 4, 1>>
    /\ local_minima = <<2>>
    /\ local_maxima = <<1, 3>>

\* the steps at which some entry of the schedule is due: hour of day = the entry's hour
DueSteps == {i \in 1..duration : \E j \in 1..Len(redose_schedule) :
                 i % HoursPerDay = IntOf(redose_schedule[j][1])}

\* C3: a schedule entry is applied at exactly the steps i in 1..duration with
\* i mod 24 = its hour, on every day, and index 0 holds initialConcentration in
\* both series whatever the schedule.
C3_RedoseByHourOfDay ==
    pc = "returned" =>
        /\ redosed = DueSteps
        /\ concentrations_min[1] = initial_concentration
        /\ concentrations_max[1] = initial_concentration

C3_Witness ==
    /\ pc = "returned" /\ duration = 2 * HoursPerDay + 1
    /\ redose_schedule = <<<<0, 1>>, <<2, 1>>>>
    /\ redosed = {1, HoursPerDay, HoursPerDay + 1, 2 * HoursPerDay, 2 * HoursPerDay + 1}
    /\ concentrations_min[1] = initial_concentration

\* conc[i-1] * decayFactor(h), with decayFactor(h) = 0.5^(1/h)
Decayed(conc, i, h) == Mul(conc[i], DecayFactor(1, h))

\* what step i added to the decayed value, in each series
AddedMin(i) == concentrations_min[i + 1] - Decayed(concentrations_min, i, half_life_min)
AddedMax(i) == concentrations_max[i + 1] - Decayed(concentrations_max, i, half_life_max)

\* the entries of the schedule whose hour is h
EntriesAt(h) == {j \in 1..Len(redose_schedule) : IntOf(redose_schedule[j][1]) = h}

\* C4: at every step i >= 1 each series is conc[i] = conc[i-1] * decayFactor(h) + d,
\* d a scheduled amount for hour i mod 24 (0 when there is no entry): the dose is
\* added to the decayed value, and the same d is added to both series.
C4_DecayThenAdd ==
    pc = "returned" =>
        \A i \in 1..duration :
            /\ AddedMin(i) = AddedMax(i)
            /\ IF EntriesAt(i % HoursPerDay) = {}
               THEN AddedMin(i) = 0
               ELSE \E j \in EntriesAt(i % HoursPerDay) : AddedMin(i) = redose_schedule[j][2]

C4_Witness ==
    /\ pc = "returned" /\ half_life_min # half_life_max
    /\ \E i \in redosed :
           /\ AddedMin(i) > 0
           /\ Decayed(concentrations_min, i, half_life_min) > 0
           /\ Decayed(concentrations_max, i, half_life_max)
                  > Decayed(concentrations_min, i, half_life_min)
           /\ concentrations_max[i + 1] = Decayed(concentrations_max, i, half_life_max) + AddedMin(i)

Max(S) == CHOOSE x \in S : \A y \in S : y <= x

\* C5: several entries with the same hour of day collapse to one: at each firing
\* step the amount of the last of them in the schedule is added, once, and the
\* amounts of the earlier ones are not.
C5_LastEntryWins ==
    pc = "returned" =>
        \A i \in redosed :
            LET last == Max(EntriesAt(i % HoursPerDay))
            IN  /\ AddedMin(i) = redose_schedule[last][2]
                /\ AddedMax(i) = redose_schedule[last][2]

C5_Witness ==
    /\ pc = "returned"
    /\ \E i \in redosed :
           LET same == EntriesAt(i % HoursPerDay)
           IN  /\ Cardinality(same) = 2
               /\ redose_schedule[1][1] # redose_schedule[2][1]
               /\ redose_schedule[1][2] > redose_schedule[2][2]
               /\ AddedMin(i) = redose_schedule[2][2]

\* C6: no call of the core functions ends in an error, whatever the numeric inputs
\* (half-lives out of order, negative initial concentration, duration zero or
\* negative).
C6_NeverRaises == pc # "raised"

\* Where the error of C6 occurs: calculate_drug_levels raises exactly when the
\* duration is negative (IndexError at line 10, index 0 of an empty array); with a
\* duration >= 0 it returns, also when the half-lives are zero or out of order or
\* the initial concentration is negative.
C6_RaisesOnlyOnNegativeDuration ==
    pc \in {"returned", "raised"} => ((pc = "raised") <=> (duration < 0))

NoRedose == redose_schedule = <<>> /\ initial_concentration > 0
            /\ half_life_min > 0 /\ half_life_max > 0

\* C7 as claimed: without redosing, C0 > 0 and positive half-lives, both series are
\* strictly decreasing.
C7_StrictlyDecreasing ==
    (pc = "returned" /\ NoRedose) =>
        \A i \in 1..duration : /\ concentrations_min[i + 1] < concentrations_min[i]
                                /\ concentrations_max[i + 1] < concentrations_max[i]

Settles(conc) ==
    \A i \in 1..duration :
        /\ 0 <= conc[i + 1] /\ conc[i + 1] <= conc[i]
        /\ conc[i + 1] = conc[i] => \A k \in i..duration : conc[k + 1] = conc[i]

\* C7 amended: both series are non-increasing and never negative, and a series that
\* once fails to decrease stays at that value (float64: it has underflowed to 0.0,
\* or the product rounds back to the same number).
C7_NonIncreasing ==
    (pc = "returned" /\ NoRedose) =>
        Settles(concentrations_min) /\ Settles(concentrations_max)

C7_Witness ==
    /\ pc = "returned" /\ NoRedose /\ duration = MaxDuration
    /\ initial_concentration = MaxConc
    /\ concentrations_min[2] < concentrations_min[1]
    /\ concentrations_min[MaxDuration + 1] = 0
    /\ concentrations_max[MaxDuration + 1] = concentrations_max[MaxDuration]
    /\ concentrations_max[MaxDuration + 1] > 0

\* C9: with 0 < halfLifeMin < halfLifeMax, initialConcentration >= 0 and every
\* amount >= 0, 0 <= concMin[k] <= concMax[k] at every index k in 0..duration.
C9_MinBelowMax ==
    (/\ pc = "returned"
     /\ 0 < half_life_min /\ half_life_min < half_life_max
     /\ initial_concentration >= 0
     /\ \A j \in 1..Len(redose_schedule) : redose_schedule[j][2] >= 0) =>
        \A k \in 0..duration :
            /\ 0 <= concentrations_min[k + 1]
            /\ concentrations_min[k + 1] <= concentrations_max[k + 1]

C9_Witness ==
    /\ pc = "returned" /\ duration = MaxDuration
    /\ 0 < half_life_min /\ half_life_min < half_life_max
    /\ initial_concentration > 0
    /\ \A j \in 1..Len(redose_schedule) : redose_schedule[j][2] >= 0
    /\ Cardinality(redosed) > 2
    /\ \E k \in redosed : /\ 0 < concentrations_min[k + 1]
                           /\ concentrations_min[k + 1] < concentrations_max[k + 1]

\* C10: an entry whose truncated hour is outside 0..23 is ignored: it is due at no
\* step, and the output is that of the schedule without the entry.
C10_OutOfRangeHourIgnored ==
    pc = "returned" =>
        \A j \in 1..Len(redose_schedule) :
            IntOf(redose_schedule[j][1]) \notin 0..(HoursPerDay - 1) =>
                LET r == CalculateDrugLevels(initial_concentration, half_life_min,
                             half_life_max, Remove(redose_schedule, j), duration)
                IN  /\ r.time_points = time_points
                    /\ r.concentrations_min = concentrations_min
                    /\ r.concentrations_max = concentrations_max
                    /\ r.redosed = redosed

C10_Witness ==
    /\ pc = "returned" /\ duration = MaxDuration
    /\ redose_schedule = <<<<2 * HoursPerDay, 1>>, <<2, 1>>>>
    /\ redosed = {1, HoursPerDay + 1, 2 * HoursPerDay + 1}
    /\ concentrations_min[HoursPerDay + 1] = 0

\* the text is two strictly positive floats, the first below the second
PositiveRange(text) ==
    LET parts == Split(text, "-")
    IN  /\ Len(parts) = 2
        /\ ~FloatFails(parts[1]) /\ ~FloatFails(parts[2])
        /\ 0 < Float(parts[1]) /\ Float(parts[1]) < Float(parts[2])

\* C8 as claimed: main calls calculate_drug_levels only when the half-life text was
\* parsed into two strictly positive floats with min < max, and for every other
\* text it reports an error and returns without calling the core.
C8_CallOnlyWithPositiveRange ==
    pc \in {"rendered", "error"} =>
        IF PositiveRange(half_life_range)
        THEN pc = "rendered" /\ 0 < half_life_min /\ half_life_min < half_life_max
        ELSE pc = "error" /\ error # None /\ time_points = <<>>

====
